---- MODULE Spec2Model ----
(***************************************************************************)
(* State-machine model of src/rag_system.py: the RAGSystem object held in  *)
(* each Streamlit session (st.session_state.rag), the Chroma collection    *)
(* persisted under PERSIST_DIRECTORY and shared by every session of the    *)
(* process, and the three button handlers of main().                       *)
(*                                                                         *)
(* Texts are modelled by their length in characters.  Documents are        *)
(* separator-free texts, so RecursiveCharacterTextSplitter falls through   *)
(* to its last separator "" and cuts windows of chunk_size characters that *)
(* overlap by chunk_overlap.                                               *)
(*                                                                         *)
(* Calls into the libraries are modelled by what they do:                  *)
(*  - Chroma(persist_directory=...) and Chroma.from_documents(...) open a  *)
(*    persistent client first, which creates the directory, and only then  *)
(*    embed and upsert; an upsert of an empty batch raises ValueError;     *)
(*  - the truth value of a Chroma object is its __len__, the number of     *)
(*    records of the collection;                                           *)
(*  - an upsert is one batch: it writes every record or raises and writes  *)
(*    none; the retriever returns min(k, n) documents.                     *)
(* The environment is the Ollama server (reachable or not) and the disk    *)
(* (writable or not).                                                      *)
(*                                                                         *)
(* Specifications: Spec runs every handler as one step; SpecConc makes the *)
(* upsert a step of its own; SpecHang makes the provider call a step of    *)
(* its own, against a server that may never answer; SpecRerun runs the     *)
(* three st.session_state assignments of "Generate Insight" one by one;    *)
(* SpecSolo is Spec with one session and a larger store; SpecSplit is the  *)
(* text splitter alone.                                                    *)
(***************************************************************************)
EXTENDS Integers, Sequences, FiniteSets, TLC

VARIABLES
    rag,         \* per session: the RAGSystem object of st.session_state.rag
    ui,          \* per session: last_query / last_answer / last_sources
    diskExists,  \* os.path.exists(PERSIST_DIRECTORY)
    records,     \* the records of the persisted collection, in insertion order
    ollamaUp,    \* the Ollama server answers embedding and chat requests
    diskOk,      \* the storage accepts opening and writing the collection
    inflight,    \* per session: the upsert a handler is inside of, if any
    procWrites,  \* a write has succeeded since the process started
    ev,          \* the handler call made by the last step and its outcome
    hung,        \* the Ollama server accepts requests and never answers them
    waiting,     \* per session: the provider call a handler is blocked in, if any
    doc,         \* the document handed to the text splitter
    parts,       \* the chunks the splitter returned for doc
    script,      \* per session: the line "Generate Insight" is about to run, and its locals
    cap          \* the number of records the store can hold

vars == <<rag, ui, diskExists, records, ollamaUp, diskOk, inflight, procWrites, ev,
          hung, waiting, doc, parts, cap, script>>

----------------------------------------------------------------------------
\* Bounds of the model: the records the store can hold when two sessions
\* share it and when one session has it for itself, and the longest
\* document given to the splitter alone, in hundreds of characters.
MaxRecords == 3
MaxStore == 5
MaxHundreds == 24

\* Two browser sessions of the one Streamlit process.
Sessions == {1, 2}

\* Inputs: uploaded files (valid UTF-8 of some length, or undecodable),
\* query texts, texts generated by the model (long enough for the feedback
\* text composed from one to exceed a chunk), exception texts.
DocLens == {0, 1000}
Files == [ok : {TRUE}, len : DocLens] \cup {[ok |-> FALSE, len |-> 0]}
QueryLens == {0, 12}
AnswerLens == {900}
ExcLens == {30}

\* Documents given to the splitter alone: a separator-free text of `body`
\* characters followed by `trail` newline characters.
DocBodies == {h * 100 + d : h \in 0..MaxHundreds, d \in {0, 1, 99}}
DocTrails == {0, 1}
Docs == [body : DocBodies, trail : DocTrails, done : {FALSE}]

\* Program constants.
ChunkSize == 800
ChunkOverlap == 100
TopK == 3
QuestionPrefixLen == 10
AnswerPrefixLen == 18
NotInitMsgLen == 56
QueryErrPrefixLen == 20

----------------------------------------------------------------------------
\* Values.
NoRag == [boot |-> "none", emb |-> FALSE, vectordb |-> FALSE, llm |-> FALSE]
NoAnswer == [kind |-> "none", len |-> 0]
NoLast == [has |-> FALSE, q |-> 0, a |-> NoAnswer, srcs |-> 0]
NoOp == [op |-> "none", arg |-> 0, lens |-> <<>>, source |-> "none", kind |-> "none"]
NoEv == [op |-> "none", sess |-> 0, arg |-> 0, res |-> "none", llm |-> FALSE, emb |-> FALSE,
         n |-> 0]
NoCall == [op |-> "none", arg |-> 0, n |-> 0]
NoScript == [pc |-> 0, q |-> 0, a |-> NoAnswer, srcs |-> 0]
NoDoc == [body |-> 0, trail |-> 0, done |-> FALSE]

Min(a, b) == IF a <= b THEN a ELSE b

\* RecursiveCharacterTextSplitter(chunk_size=800, chunk_overlap=100) on a
\* separator-free text: the lengths of the chunks, in order.  The window
\* that starts at `start` is full unless the rest of the text fits.
RECURSIVE SplitFrom(_, _)
SplitFrom(start, len) ==
    IF len - start <= ChunkSize
    THEN <<len - start>>
    ELSE <<ChunkSize>> \o SplitFrom(start + ChunkSize - ChunkOverlap, len)

split_documents(len) == IF len = 0 THEN <<>> ELSE SplitFrom(0, len)

\* Faulty variant of ChunksFrom: the next window starts one character too
\* early.
RECURSIVE ChunksFromEarly(_, _)
ChunksFromEarly(start, len) ==
    IF len - start <= ChunkSize
    THEN <<[off |-> start, len |-> len - start]>>
    ELSE <<[off |-> start, len |-> ChunkSize]>>
            \o ChunksFromEarly(start + ChunkSize - ChunkOverlap - 1, len)

\* The same windows with their place in the text: chunk = text[off, off + len).
RECURSIVE ChunksFrom(_, _)
ChunksFrom(start, len) ==
    IF len - start <= ChunkSize
    THEN <<[off |-> start, len |-> len - start]>>
    ELSE <<[off |-> start, len |-> ChunkSize]>>
            \o ChunksFrom(start + ChunkSize - ChunkOverlap, len)

\* split_text on a document of Docs.  The newline is the first separator
\* found: the text is cut into the body and the newlines, the body is cut
\* into windows by the last separator "", and every chunk is stripped of
\* leading and trailing whitespace, an empty one being dropped.  So the
\* trailing newlines are in no chunk.
split_text(d) == IF d.body = 0 THEN <<>> ELSE ChunksFrom(0, d.body)

\* f"Question: {query}\nVerified Answer: {answer}"
new_knowledge(q, a) == QuestionPrefixLen + q + AnswerPrefixLen + a.len

\* The texts query_system returns.
NotInitAnswer == [kind |-> "notinit", len |-> NotInitMsgLen]
ErrAnswer(e) == [kind |-> "error", len |-> QueryErrPrefixLen + e]
LlmAnswer(n) == [kind |-> "llm", len |-> n]

\* Ids are uuid4 values drawn by the store: fresh for every record.
FreshId(recs, i) == Len(recs) + i

\* The records of one batch: one per text, each with a fresh id.
MakeRecords(recs, lens, source, kind) ==
    [i \in 1..Len(lens) |->
        [id |-> FreshId(recs, i), source |-> source, len |-> lens[i], ans |-> kind]]

\* Faulty variant of Upsert: a batch whose text is already stored replaces
\* nothing and adds nothing (content-addressed deduplication).
UpsertOverwrite(recs, batch) ==
    IF batch # <<>> /\ \E i \in 1..Len(recs) :
           recs[i].source = batch[1].source /\ recs[i].len = batch[1].len
                /\ recs[i].ans = batch[1].ans
    THEN recs
    ELSE recs \o batch

\* collection.upsert of a batch of new ids: the records are appended.
Upsert(recs, batch) == recs \o batch

\* Faulty variant of Truthy: only None is false.
TruthyIgnoringLen(s) == rag[s].vectordb

\* bool(self.vectordb): None is false; a Chroma object is false when its
\* collection holds no record (Chroma.__len__).
Truthy(s) == rag[s].vectordb /\ Len(records) > 0

----------------------------------------------------------------------------
Init ==
    /\ rag = [s \in Sessions |-> NoRag]
    /\ ui = [s \in Sessions |-> NoLast]
    /\ diskExists = FALSE
    /\ records = <<>>
    /\ ollamaUp \in BOOLEAN
    /\ diskOk = TRUE
    /\ inflight = [s \in Sessions |-> NoOp]
    /\ procWrites = FALSE
    /\ ev = NoEv
    /\ hung = FALSE
    /\ waiting = [s \in Sessions |-> NoCall]
    /\ doc = NoDoc
    /\ parts = <<>>
    /\ script = [s \in Sessions |-> NoScript]
    /\ cap = MaxRecords

Idle(s) == inflight[s] = NoOp
Started(s) == rag[s].boot # "none"

\* Faulty variant of RAGSystem_init: the language model is constructed
\* only on the branch that finds the persist directory.
RAGSystem_init_LlmOnlyWithStore(s, outcome) ==
    LET embFails == outcome = "emb"
        storeFails == ~embFails /\ diskExists /\ ~diskOk
        llmFails == ~embFails /\ ~storeFails /\ outcome = "llm"
    IN  IF embFails \/ llmFails
        THEN [boot |-> "provider", emb |-> ~embFails, vectordb |-> FALSE, llm |-> FALSE]
        ELSE IF storeFails
        THEN [boot |-> "storage", emb |-> TRUE, vectordb |-> FALSE, llm |-> FALSE]
        ELSE [boot |-> IF diskExists THEN "loaded" ELSE "nostore",
              emb |-> TRUE, vectordb |-> diskExists, llm |-> diskExists]

\* Faulty variant of RAGSystem_init: the persisted collection is never
\* opened, every system starts without a store.
RAGSystem_init_NeverLoads(s, outcome) ==
    LET embFails == outcome = "emb"
        llmFails == ~embFails /\ outcome = "llm"
    IN  IF embFails \/ llmFails
        THEN [boot |-> "provider", emb |-> ~embFails, vectordb |-> FALSE, llm |-> FALSE]
        ELSE [boot |-> IF diskExists THEN "loaded" ELSE "nostore",
              emb |-> TRUE, vectordb |-> FALSE, llm |-> TRUE]

\* RAGSystem.__init__: the three constructors in order; an exception in any
\* of them leaves vectordb = None and llm = None.  The Ollama constructors
\* can fail only when the server is unreachable; opening the existing
\* collection fails when the storage does.
RAGSystem_init(s, outcome) ==
    LET embFails == outcome = "emb"
        storeFails == ~embFails /\ diskExists /\ ~diskOk
        llmFails == ~embFails /\ ~storeFails /\ outcome = "llm"
    IN  IF embFails \/ llmFails
        THEN [boot |-> "provider", emb |-> ~embFails, vectordb |-> FALSE, llm |-> FALSE]
        ELSE IF storeFails
        THEN [boot |-> "storage", emb |-> TRUE, vectordb |-> FALSE, llm |-> FALSE]
        ELSE [boot |-> IF diskExists THEN "loaded" ELSE "nostore",
              emb |-> TRUE, vectordb |-> diskExists, llm |-> TRUE]

\* main(), first run of a session: 'rag' not in st.session_state.
main_new_session(s) ==
    /\ ~Started(s)
    /\ \E outcome \in {"ok", "emb", "llm"} :
        /\ outcome # "ok" => ~ollamaUp
        /\ rag' = [rag EXCEPT ![s] = RAGSystem_init(s, outcome)]
        /\ ev' = [NoEv EXCEPT !.op = "init", !.sess = s,
                     !.res = IF rag'[s].llm THEN "ok" ELSE "err"]
    /\ UNCHANGED <<ui, diskExists, records, ollamaUp, diskOk, inflight, procWrites>>
    /\ UNCHANGED <<hung, waiting, doc, parts, cap, script>>

----------------------------------------------------------------------------
\* Faulty variant of TryCovers: the try blocks of the write handlers start
\* after the reads of self.embedding_model and self.vectordb.
TryCoversLate(op) ==
    CASE op = "ingest" -> {"load", "open", "embed", "upsert"}
      [] op = "learn" -> {"embed", "upsert"}
      [] OTHER -> {"embed", "generate"}

\* The statements of each handler that can raise, and the ones its
\* try/except encloses: all of ingest_documents (lines 48-66) and of
\* self_learn (lines 88-94); in query_system the chain (lines 72-85) but
\* not the guard of line 69.
TryCovers(op) ==
    CASE op = "ingest" -> {"load", "attr", "open", "embed", "upsert"}
      [] op = "learn" -> {"attr", "embed", "upsert"}
      [] OTHER -> {"embed", "generate"}

\* What the caller gets when the handler raised at `stage` ("none": it did
\* not): the except clause returns the error text, anything else escapes.
Outcome(op, stage) ==
    IF stage = "none" THEN "ok"
    ELSE IF stage \in TryCovers(op) THEN "err"
    ELSE "raised"

\* What a write handler does before its upsert: go = it reaches the upsert
\* (otherwise it raised at `stage`), mk = it has created the persist
\* directory, emb = it has called the embedding provider, lens = the texts
\* of the batch.
Stop(stage, mk, emb) == [go |-> FALSE, stage |-> stage, mk |-> mk, emb |-> emb, lens |-> <<>>]
Go(mk, lens) == [go |-> TRUE, stage |-> "none", mk |-> mk, emb |-> TRUE, lens |-> lens]

\* The argument of a call as the events record it: the length of the
\* file's text (-1 for a file that is not UTF-8), the length of the query.
FileArg(f) == IF f.ok THEN f.len ELSE -1

\* ingest_documents up to the upsert.  TextLoader raises on a file that is
\* not UTF-8.  With vectordb None, Chroma.from_documents reads
\* self.embedding_model (AttributeError when __init__ never set it), opens
\* the persistent client, which creates the directory, then adds the
\* chunks; otherwise add_documents adds them to the open collection.
\* Adding embeds the whole batch in one provider call and upserts it; an
\* empty batch is refused by the collection (ValueError).
IngestPlan(s, f) ==
    LET chunks == split_documents(f.len)
    IN  IF ~f.ok THEN Stop("load", FALSE, FALSE)
        ELSE IF ~rag[s].vectordb
        THEN IF ~rag[s].emb THEN Stop("attr", FALSE, FALSE)
             ELSE IF ~diskOk THEN Stop("open", FALSE, FALSE)
             ELSE IF ~ollamaUp THEN Stop("embed", TRUE, TRUE)
             ELSE IF chunks = <<>> THEN Stop("upsert", TRUE, TRUE)
             ELSE Go(TRUE, chunks)
        ELSE IF ~ollamaUp THEN Stop("embed", FALSE, TRUE)
             ELSE IF chunks = <<>> THEN Stop("upsert", FALSE, TRUE)
             ELSE Go(FALSE, chunks)

\* self_learn up to the upsert: one Document holding the whole composed
\* text, added without splitting.  self.vectordb None raises AttributeError.
LearnPlan(s) ==
    IF ~rag[s].vectordb THEN Stop("attr", FALSE, FALSE)
    ELSE IF ~ollamaUp THEN Stop("embed", FALSE, TRUE)
    ELSE Go(FALSE, <<new_knowledge(ui[s].q, ui[s].a)>>)

\* Records written or about to be written: the model's cap on the store.
RECURSIVE Pending(_)
Pending(S) ==
    IF S = {} THEN 0
    ELSE LET s == CHOOSE x \in S : TRUE IN Len(inflight[s].lens) + Pending(S \ {s})

Room(n) == Len(records) + Pending(Sessions) + n <= cap

\* A write handler as one step (op: its name and its argument as the
\* events record it): the plan, then the upsert, which fails as a
\* whole when the storage refuses the write; on success ingest_documents
\* holds the collection in self.vectordb.
WriteCall(s, op, p, source, kind) ==
    LET stage == IF ~p.go THEN p.stage ELSE IF ~diskOk THEN "upsert" ELSE "none"
        ok == stage = "none"
        batch == MakeRecords(records, p.lens, source, kind)
    IN  /\ p.go => Room(Len(p.lens))
        /\ diskExists' = (diskExists \/ p.mk)
        /\ records' = IF ok THEN Upsert(records, batch) ELSE records
        /\ rag' = IF ok THEN [rag EXCEPT ![s].vectordb = TRUE] ELSE rag
        /\ procWrites' = (procWrites \/ ok)
        /\ ev' = [op |-> op.name, sess |-> s, arg |-> op.arg, res |-> Outcome(op.name, stage),
                  llm |-> FALSE, emb |-> p.emb, n |-> IF ok THEN Len(p.lens) ELSE 0]

ingest_documents(s, f) ==
    WriteCall(s, [name |-> "ingest", arg |-> FileArg(f)], IngestPlan(s, f), "temp_data.txt", "none")

self_learn(s) ==
    WriteCall(s, [name |-> "learn", arg |-> ui[s].q], LearnPlan(s), "user_feedback", ui[s].a.kind)

\* The same handlers with the upsert as a step of its own: the handler
\* runs up to the upsert, and the upsert completes in a later step.
BeginWrite(s, op, p, source, kind) ==
    IF p.go
    THEN /\ Room(Len(p.lens))
         /\ diskExists' = (diskExists \/ p.mk)
         /\ inflight' = [inflight EXCEPT ![s] =
                [op |-> op.name, arg |-> op.arg, lens |-> p.lens, source |-> source,
                 kind |-> kind]]
         /\ ev' = [op |-> op.name, sess |-> s, arg |-> op.arg, res |-> "upserting",
                   llm |-> FALSE, emb |-> p.emb, n |-> 0]
         /\ UNCHANGED <<records, rag, procWrites>>
    ELSE /\ WriteCall(s, op, p, source, kind)
         /\ UNCHANGED inflight

EndUpsert(s) ==
    LET w == inflight[s]
        stage == IF ~diskOk THEN "upsert" ELSE "none"
        ok == stage = "none"
        batch == MakeRecords(records, w.lens, w.source, w.kind)
    IN  /\ ~Idle(s)
        /\ records' = IF ok THEN Upsert(records, batch) ELSE records
        /\ rag' = IF ok THEN [rag EXCEPT ![s].vectordb = TRUE] ELSE rag
        /\ procWrites' = (procWrites \/ ok)
        /\ inflight' = [inflight EXCEPT ![s] = NoOp]
        /\ ev' = [op |-> w.op, sess |-> s, arg |-> w.arg, res |-> Outcome(w.op, stage),
                  llm |-> FALSE, emb |-> TRUE, n |-> IF ok THEN Len(w.lens) ELSE 0]
        /\ UNCHANGED <<ui, diskExists, ollamaUp, diskOk>>
        /\ UNCHANGED <<hung, waiting, doc, parts, cap, script>>

\* Faulty variant of query_system: the retriever is not given k and returns
\* every record of the store.
query_system_Unbounded(s, q, n, e) ==
    IF ~Truthy(s) \/ ~rag[s].llm
    THEN [a |-> NotInitAnswer, srcs |-> 0, res |-> "notinit", emb |-> FALSE, llm |-> FALSE]
    ELSE IF ~ollamaUp
    THEN [a |-> ErrAnswer(e), srcs |-> 0, res |-> Outcome("query", "embed"),
          emb |-> TRUE, llm |-> FALSE]
    ELSE [a |-> LlmAnswer(n), srcs |-> Len(records), res |-> "ok",
          emb |-> TRUE, llm |-> TRUE]

\* query_system: the guard of line 69, then the retrieval chain inside the
\* try: embed the query, fetch the k nearest records, generate.
query_system(s, q, n, e) ==
    IF ~Truthy(s) \/ ~rag[s].llm
    THEN [a |-> NotInitAnswer, srcs |-> 0, res |-> "notinit", emb |-> FALSE, llm |-> FALSE]
    ELSE IF ~ollamaUp
    THEN [a |-> ErrAnswer(e), srcs |-> 0, res |-> Outcome("query", "embed"),
          emb |-> TRUE, llm |-> FALSE]
    ELSE [a |-> LlmAnswer(n), srcs |-> Min(TopK, Len(records)), res |-> "ok",
          emb |-> TRUE, llm |-> TRUE]

----------------------------------------------------------------------------
\* The button handlers of main().

\* "Ingest Wisdom": the uploaded file is written to temp_data.txt and ingested.
IngestWisdom(s, f) ==
    /\ Started(s) /\ Idle(s)
    /\ ingest_documents(s, f)
    /\ UNCHANGED <<ui, ollamaUp, diskOk, inflight>>
    /\ UNCHANGED <<hung, waiting, doc, parts, cap, script>>

\* Lines 181-183: the query, the answer and the sources of one call.
StoreLast(s, q, r) == [ui EXCEPT ![s] = [has |-> TRUE, q |-> q, a |-> r.a, srcs |-> r.srcs]]

QueryEvent(s, q, r) ==
    [op |-> "query", sess |-> s, arg |-> q, res |-> r.res, llm |-> r.llm, emb |-> r.emb,
     n |-> r.srcs]

SkipEvent(s) == [NoEv EXCEPT !.op = "generate", !.sess = s, !.res = "skip"]

\* Faulty variant of GenerateInsight: the text box is not tested, an empty
\* query goes to query_system like any other.
GenerateInsightNoGuard(s, q) ==
    /\ Started(s) /\ Idle(s)
    /\ \E n \in AnswerLens, e \in ExcLens :
        LET r == query_system(s, q, n, e)
        IN  /\ ui' = IF r.res = "raised" THEN ui ELSE StoreLast(s, q, r)
            /\ ev' = QueryEvent(s, q, r)
    /\ UNCHANGED <<rag, diskExists, records, ollamaUp, diskOk, inflight, procWrites>>
    /\ UNCHANGED <<hung, waiting, doc, parts, cap, script>>

\* Faulty variant of GenerateInsight: a query that fails in the chain drops
\* the session's store handle, as the except clause of __init__ does.
GenerateInsightDropsStore(s, q) ==
    /\ Started(s) /\ Idle(s)
    /\ \E n \in AnswerLens, e \in ExcLens :
        LET r == query_system(s, q, n, e)
        IN  IF q = 0
            THEN /\ ui' = ui
                 /\ ev' = SkipEvent(s)
                 /\ rag' = rag
            ELSE /\ ui' = IF r.res = "raised" THEN ui ELSE StoreLast(s, q, r)
                 /\ ev' = QueryEvent(s, q, r)
                 /\ rag' = IF r.res = "err" THEN [rag EXCEPT ![s].vectordb = FALSE] ELSE rag
    /\ UNCHANGED <<diskExists, records, ollamaUp, diskOk, inflight, procWrites>>
    /\ UNCHANGED <<hung, waiting, doc, parts, cap, script>>

\* "Generate Insight": nothing happens on an empty text box; otherwise the
\* answer and sources query_system returns are stored in the session
\* whatever the outcome was.
GenerateInsight(s, q) ==
    /\ Started(s) /\ Idle(s)
    /\ \E n \in AnswerLens, e \in ExcLens :
        LET r == query_system(s, q, n, e)
        IN  IF q = 0
            THEN /\ ui' = ui
                 /\ ev' = SkipEvent(s)
            ELSE /\ ui' = IF r.res = "raised" THEN ui ELSE StoreLast(s, q, r)
                 /\ ev' = QueryEvent(s, q, r)
    /\ UNCHANGED <<rag, diskExists, records, ollamaUp, diskOk, inflight, procWrites>>
    /\ UNCHANGED <<hung, waiting, doc, parts, cap, script>>

\* "Confirm & Learn": shown once 'last_answer' is in the session state.
ConfirmAndLearn(s) ==
    /\ Started(s) /\ Idle(s)
    /\ ui[s].has
    /\ self_learn(s)
    /\ UNCHANGED <<ui, ollamaUp, diskOk, inflight>>
    /\ UNCHANGED <<hung, waiting, doc, parts, cap, script>>

\* The two write handlers on their own script threads.
BeginIngestWisdom(s, f) ==
    /\ Started(s) /\ Idle(s)
    /\ BeginWrite(s, [name |-> "ingest", arg |-> FileArg(f)], IngestPlan(s, f),
                  "temp_data.txt", "none")
    /\ UNCHANGED <<ui, ollamaUp, diskOk>>
    /\ UNCHANGED <<hung, waiting, doc, parts, cap, script>>

BeginConfirmAndLearn(s) ==
    /\ Started(s) /\ Idle(s)
    /\ ui[s].has
    /\ BeginWrite(s, [name |-> "learn", arg |-> ui[s].q], LearnPlan(s),
                  "user_feedback", ui[s].a.kind)
    /\ UNCHANGED <<ui, ollamaUp, diskOk>>
    /\ UNCHANGED <<hung, waiting, doc, parts, cap, script>>

\* The environment: the Ollama server and the storage come and go, and the
\* process is restarted (every session is lost, the directory stays).
OllamaChange ==
    /\ ollamaUp' = ~ollamaUp
    /\ ev' = [NoEv EXCEPT !.op = "env"]
    /\ UNCHANGED <<rag, ui, diskExists, records, diskOk, inflight, procWrites>>
    /\ UNCHANGED <<hung, waiting, doc, parts, cap, script>>

DiskChange ==
    /\ diskOk' = ~diskOk
    /\ ev' = [NoEv EXCEPT !.op = "env"]
    /\ UNCHANGED <<rag, ui, diskExists, records, ollamaUp, inflight, procWrites>>
    /\ UNCHANGED <<hung, waiting, doc, parts, cap, script>>

Restart ==
    /\ \E s \in Sessions : Started(s)
    /\ rag' = [s \in Sessions |-> NoRag]
    /\ ui' = [s \in Sessions |-> NoLast]
    /\ inflight' = [s \in Sessions |-> NoOp]
    /\ procWrites' = FALSE
    /\ waiting' = [s \in Sessions |-> NoCall]
    /\ ev' = [NoEv EXCEPT !.op = "restart"]
    /\ UNCHANGED <<diskExists, records, ollamaUp, diskOk>>
    /\ script' = [s \in Sessions |-> NoScript]
    /\ UNCHANGED <<hung, doc, parts, cap>>

\* Every handler runs to completion before the next one starts.
Next ==
    \/ \E s \in Sessions : main_new_session(s)
    \/ \E s \in Sessions, f \in Files : IngestWisdom(s, f)
    \/ \E s \in Sessions, q \in QueryLens : GenerateInsight(s, q)
    \/ \E s \in Sessions : ConfirmAndLearn(s)
    \/ OllamaChange
    \/ DiskChange
    \/ Restart

Spec == Init /\ [][Next]_vars

\* One browser session on a larger store.
Solo == CHOOSE s \in Sessions : TRUE

InitSolo ==
    /\ rag = [s \in Sessions |-> NoRag]
    /\ ui = [s \in Sessions |-> NoLast]
    /\ diskExists = FALSE
    /\ records = <<>>
    /\ ollamaUp \in BOOLEAN
    /\ diskOk = TRUE
    /\ inflight = [s \in Sessions |-> NoOp]
    /\ procWrites = FALSE
    /\ ev = NoEv
    /\ hung = FALSE
    /\ waiting = [s \in Sessions |-> NoCall]
    /\ doc = NoDoc
    /\ parts = <<>>
    /\ script = [s \in Sessions |-> NoScript]
    /\ cap = MaxStore

SoloNext ==
    \/ main_new_session(Solo)
    \/ \E f \in Files : IngestWisdom(Solo, f)
    \/ \E q \in QueryLens : GenerateInsight(Solo, q)
    \/ ConfirmAndLearn(Solo)
    \/ OllamaChange
    \/ DiskChange
    \/ Restart

SpecSolo == InitSolo /\ [][SoloNext]_vars

\* The text splitter on its own: every document of Docs is split once.
InitSplit ==
    /\ rag = [s \in Sessions |-> NoRag]
    /\ ui = [s \in Sessions |-> NoLast]
    /\ diskExists = FALSE
    /\ records = <<>>
    /\ ollamaUp = TRUE
    /\ diskOk = TRUE
    /\ inflight = [s \in Sessions |-> NoOp]
    /\ procWrites = FALSE
    /\ ev = NoEv
    /\ hung = FALSE
    /\ waiting = [s \in Sessions |-> NoCall]
    /\ doc \in Docs
    /\ parts = <<>>
    /\ script = [s \in Sessions |-> NoScript]
    /\ cap = MaxRecords

SplitDocument ==
    /\ ~doc.done
    /\ parts' = split_text(doc)
    /\ doc' = [doc EXCEPT !.done = TRUE]
    /\ UNCHANGED <<rag, ui, diskExists, records, ollamaUp, diskOk, inflight, procWrites, ev,
                   hung, waiting, script, cap>>

SpecSplit == InitSplit /\ [][SplitDocument]_vars

\* The sessions' script threads interleave at the upserts.
ConcNext ==
    \/ \E s \in Sessions : main_new_session(s)
    \/ \E s \in Sessions, f \in Files : BeginIngestWisdom(s, f)
    \/ \E s \in Sessions, q \in QueryLens : GenerateInsight(s, q)
    \/ \E s \in Sessions : BeginConfirmAndLearn(s)
    \/ \E s \in Sessions : EndUpsert(s)
    \/ OllamaChange
    \/ DiskChange
    \/ Restart

SpecConc == Init /\ [][ConcNext]_vars

----------------------------------------------------------------------------
\* The handlers with the provider call as a step of its own.  The Ollama
\* clients are constructed without a timeout (lines 27 and 37-41) and the
\* handlers pass none, so a request the server accepts and never answers
\* is waited for: the handler goes on when the answer or the refusal
\* arrives, and there is no other way out of the wait.

Free(s) == waiting[s] = NoCall

\* Records reserved by the calls in progress: the model's cap on the store.
RECURSIVE Reserved(_)
Reserved(S) ==
    IF S = {} THEN 0
    ELSE LET s == CHOOSE x \in S : TRUE IN waiting[s].n + Reserved(S \ {s})

\* The handler sends its request: from_documents has opened the client
\* (mk) before it embeds.
CallProvider(s, name, arg, n, mk) ==
    /\ Len(records) + Reserved(Sessions) + n <= cap
    /\ waiting' = [waiting EXCEPT ![s] = [op |-> name, arg |-> arg, n |-> n]]
    /\ diskExists' = (diskExists \/ mk)
    /\ ev' = [op |-> name, sess |-> s, arg |-> arg, res |-> "calling",
              llm |-> FALSE, emb |-> TRUE, n |-> 0]
    /\ UNCHANGED <<rag, ui, records, ollamaUp, diskOk, inflight, procWrites, hung, doc, parts, cap,
                   script>>

CallIngestWisdom(s, f) ==
    /\ Free(s)
    /\ IF IngestPlan(s, f).emb
       THEN /\ Started(s) /\ Idle(s)
            /\ CallProvider(s, "ingest", FileArg(f), Len(split_documents(f.len)),
                            IngestPlan(s, f).mk)
       ELSE IngestWisdom(s, f)

CallGenerateInsight(s, q) ==
    /\ Free(s)
    /\ IF q # 0 /\ Truthy(s) /\ rag[s].llm
       THEN /\ Started(s) /\ Idle(s)
            /\ CallProvider(s, "query", q, 0, FALSE)
       ELSE GenerateInsight(s, q)

CallConfirmAndLearn(s) ==
    /\ Free(s)
    /\ IF LearnPlan(s).emb
       THEN /\ Started(s) /\ Idle(s) /\ ui[s].has
            /\ CallProvider(s, "learn", ui[s].q, 1, FALSE)
       ELSE ConfirmAndLearn(s)

\* The answer or the refusal arrives and the handler runs to its end.
ProviderAnswers(s) ==
    LET w == waiting[s]
    IN  /\ ~Free(s)
        /\ ~hung
        /\ waiting' = [waiting EXCEPT ![s] = NoCall]
        /\ \/ /\ w.op = "ingest"
              /\ ingest_documents(s, [ok |-> TRUE, len |-> w.arg])
              /\ ui' = ui
           \/ /\ w.op = "learn"
              /\ self_learn(s)
              /\ ui' = ui
           \/ /\ w.op = "query"
              /\ \E n \in AnswerLens, e \in ExcLens :
                    LET r == query_system(s, w.arg, n, e)
                    IN  /\ ui' = IF r.res = "raised" THEN ui ELSE StoreLast(s, w.arg, r)
                        /\ ev' = QueryEvent(s, w.arg, r)
              /\ UNCHANGED <<rag, diskExists, records, procWrites>>
        /\ UNCHANGED <<ollamaUp, diskOk, inflight, hung, doc, parts, cap, script>>

\* The server stops answering the requests it accepts, or answers again.
OllamaHangs ==
    /\ ollamaUp
    /\ hung' = ~hung
    /\ ev' = [NoEv EXCEPT !.op = "env"]
    /\ UNCHANGED <<rag, ui, diskExists, records, ollamaUp, diskOk, inflight, procWrites,
                   waiting, doc, parts, cap, script>>

HangNext ==
    \/ \E s \in Sessions : main_new_session(s)
    \/ \E s \in Sessions, f \in Files : CallIngestWisdom(s, f)
    \/ \E s \in Sessions, q \in QueryLens : CallGenerateInsight(s, q)
    \/ \E s \in Sessions : CallConfirmAndLearn(s)
    \/ \E s \in Sessions : ProviderAnswers(s)
    \/ OllamaChange
    \/ OllamaHangs
    \/ Restart

SpecHang == Init /\ [][HangNext]_vars

----------------------------------------------------------------------------
\* "Generate Insight" line by line.  Every access to st.session_state is a
\* point where the script run stops when the session has asked for a rerun
\* (the user touched a widget), so the three assignments of lines 181-183
\* are three steps and a rerun can end the run before any of them.

Quiet(s) == script[s].pc = 0

\* Lines 176-180: the call of query_system; its results are locals.
RunGenerateInsight(s, q) ==
    /\ Quiet(s)
    /\ IF q = 0
       THEN GenerateInsight(s, q)
       ELSE /\ Started(s) /\ Idle(s)
            /\ \E n \in AnswerLens, e \in ExcLens :
                LET r == query_system(s, q, n, e)
                IN  /\ script' = [script EXCEPT ![s] =
                            [pc |-> 181, q |-> q, a |-> r.a, srcs |-> r.srcs]]
                    /\ ev' = QueryEvent(s, q, r)
            /\ UNCHANGED <<rag, ui, diskExists, records, ollamaUp, diskOk, inflight,
                           procWrites, hung, waiting, doc, parts, cap>>

\* Line 181, 182 or 183.
StoreLine(s) ==
    LET l == script[s]
    IN  /\ ~Quiet(s)
        /\ ui' = [ui EXCEPT ![s] =
                CASE l.pc = 181 -> [@ EXCEPT !.q = l.q]
                  [] l.pc = 182 -> [@ EXCEPT !.has = TRUE, !.a = l.a]
                  [] OTHER -> [@ EXCEPT !.srcs = l.srcs]]
        /\ script' = [script EXCEPT ![s] = IF l.pc = 183 THEN NoScript ELSE [l EXCEPT !.pc = @ + 1]]
        /\ ev' = [NoEv EXCEPT !.op = "store", !.sess = s, !.arg = l.pc]
        /\ UNCHANGED <<rag, diskExists, records, ollamaUp, diskOk, inflight, procWrites,
                       hung, waiting, doc, parts, cap>>

\* The rerun request arrives: the run stops at its next access to
\* st.session_state, before the assignment.
RerunRequest(s) ==
    /\ ~Quiet(s)
    /\ script' = [script EXCEPT ![s] = NoScript]
    /\ ev' = [NoEv EXCEPT !.op = "rerun", !.sess = s]
    /\ UNCHANGED <<rag, ui, diskExists, records, ollamaUp, diskOk, inflight, procWrites,
                   hung, waiting, doc, parts, cap>>

RerunNext ==
    \/ \E s \in Sessions : main_new_session(s)
    \/ \E s \in Sessions, f \in Files : Quiet(s) /\ IngestWisdom(s, f)
    \/ \E s \in Sessions, q \in QueryLens : RunGenerateInsight(s, q)
    \/ \E s \in Sessions : StoreLine(s)
    \/ \E s \in Sessions : RerunRequest(s)
    \/ \E s \in Sessions : Quiet(s) /\ ConfirmAndLearn(s)

\* The sessions of one process in a steady environment: Ollama stays as it
\* was when the process started, the storage works.
SpecRerun == Init /\ [][RerunNext]_vars

----------------------------------------------------------------------------
\* Properties.

IsCall(op) == ev.op = op

\* C1: a query made while the store does not exist or holds no record
\* returns a failure, and the language model is not invoked by that call.
C1_EmptyStoreQueryFails ==
    (IsCall("query") /\ (~diskExists \/ records = <<>>))
        => (ev.res = "notinit" /\ ~ev.llm /\ ~ev.emb)

\* C1 happens: a session that holds an open but empty collection and a
\* language model, with Ollama reachable, has queried and been refused.
C1_EmptyStoreQueried ==
    /\ IsCall("query") /\ ev.res = "notinit"
    /\ diskExists /\ records = <<>>
    /\ rag[ev.sess].vectordb /\ rag[ev.sess].llm /\ ollamaUp

\* Degraded: the language model or the embedding provider did not connect,
\* or the session holds no store.
Degraded(s) == ~rag[s].llm \/ ~rag[s].emb \/ ~rag[s].vectordb

\* C2: in Degraded both query and learn fail and do no partial work: no
\* provider is called and no record is written.
C2_DegradedDoesNoWork ==
    [][ (ev'.op \in {"query", "learn"} /\ Degraded(ev'.sess))
            => (ev'.res # "ok" /\ ~ev'.llm /\ ~ev'.emb /\ records' = records) ]_vars

\* C3: once a write has succeeded in the process, no later query of a
\* session that holds a language model is refused as uninitialized.
C3_ReadSeesWrite ==
    (IsCall("query") /\ procWrites /\ rag[ev.sess].llm) => ev.res # "notinit"

\* C4: at no time are two upserts in progress.
C4_WritesSerialized ==
    Cardinality({s \in Sessions : ~Idle(s)}) <= 1

\* C5: a session that started with both providers connected and no
\* persisted store, and has since ingested successfully, is Ready: its
\* queries are not refused as uninitialized, go on to retrieval, and with
\* Ollama reachable are answered by the language model.
C5_ReadyAfterFirstIngest ==
    (IsCall("query") /\ rag[ev.sess].boot = "nostore" /\ rag[ev.sess].vectordb)
        => (ev.res # "notinit" /\ ev.emb /\ (ollamaUp => ev.res = "ok" /\ ev.llm))

\* C5 happens: such a session has queried and was answered.
C5_QueriedAfterFirstIngest ==
    /\ IsCall("query") /\ rag[ev.sess].boot = "nostore" /\ rag[ev.sess].vectordb
    /\ ev.res = "ok" /\ ev.llm

\* C6: a session whose initialization failed because Ollama was unreachable
\* becomes Ready once Ollama is reachable and a store exists: with the
\* providers and the storage up and the session holding a store with
\* records, its query is accepted.
C6_ReadyAfterProvidersReturn ==
    (IsCall("query") /\ rag[ev.sess].boot = "provider"
        /\ ollamaUp /\ diskOk /\ rag[ev.sess].vectordb /\ records # <<>>)
        => (ev.res = "ok" /\ ev.llm)

\* In fact no step gives such a session a language model, so none of its
\* queries is ever accepted.
C6_NeverReady ==
    /\ \A s \in Sessions : rag[s].boot = "provider" => ~rag[s].llm
    /\ (IsCall("query") /\ rag[ev.sess].boot = "provider") => ev.res = "notinit"

C8_FailedWriteChangesNothing ==
    [][ (ev'.op \in {"ingest", "learn"} /\ ev'.res = "err")
            => (records' = records /\ diskExists' = diskExists) ]_vars

\* What does hold of a failed write: the records are untouched.
C8_FailedWriteKeepsRecords ==
    [][ (ev'.op \in {"ingest", "learn"} /\ ev'.res = "err") => records' = records ]_vars

\* C9: a successful learn appends exactly one record, with source
\* "user_feedback" and an id no record had, and leaves every earlier
\* record as it was; the ids of the store are pairwise distinct.
C9_LearnAppendsFresh ==
    [][ (ev'.op = "learn" /\ ev'.res = "ok")
            => LET n == Len(records) IN
               /\ Len(records') = n + 1
               /\ SubSeq(records', 1, n) = records
               /\ records'[n + 1].source = "user_feedback"
               /\ \A i \in 1..n : records[i].id # records'[n + 1].id ]_vars

\* C9 happens: the same pair was learnt twice and the store holds two
\* feedback records with the same text and different ids.
C9_SamePairTwice ==
    /\ IsCall("learn") /\ ev.res = "ok"
    /\ \E i, j \in 1..Len(records) :
        /\ i < j /\ j = Len(records)
        /\ records[i].source = "user_feedback" /\ records[j].source = "user_feedback"
        /\ records[i].len = records[j].len /\ records[i].ans = records[j].ans
        /\ records[i].id # records[j].id

\* C10: every record written by learn has a text of at most max_size
\* characters (learn splits the feedback text as ingest splits a document).
C10_FeedbackChunked ==
    \A i \in 1..Len(records) :
        records[i].source = "user_feedback" => records[i].len <= ChunkSize

\* C11: with no persisted store, ingesting a non-empty document does not
\* fail when the providers and the storage work; a successful first ingest
\* creates the store with the records it wrote; a restart of the process
\* keeps the store and its records; and a system initialized while the
\* store exists opens it.
C11_FirstIngestPersists ==
    [][ LET s == ev'.sess IN
        /\ (ev'.op = "ingest" /\ ~diskExists /\ ev'.arg > 0
                /\ rag[s].emb /\ ollamaUp /\ diskOk) => ev'.res = "ok"
        /\ (ev'.op = "ingest" /\ ~diskExists /\ ev'.res = "ok")
                => (diskExists' /\ ev'.n > 0 /\ Len(records') = ev'.n)
        /\ ev'.op = "restart" => (records' = records /\ diskExists' = diskExists)
        /\ (ev'.op = "init" /\ ev'.res = "ok" /\ diskExists)
                => (rag'[s].boot = "loaded" /\ rag'[s].vectordb) ]_vars

\* C11 happens: a session of a restarted process has opened a store that
\* holds the chunks a previous process ingested.
C11_LoadedAfterRestart ==
    /\ IsCall("init") /\ ev.res = "ok" /\ ~procWrites
    /\ rag[ev.sess].boot = "loaded" /\ rag[ev.sess].vectordb
    /\ records # <<>>
    /\ \A i \in 1..Len(records) : records[i].source = "temp_data.txt"

\* C12: a press of "Generate Insight" with an empty query text calls
\* neither the embedding provider nor the language model.
C12_EmptyQueryRejected ==
    (ev.op \in {"generate", "query"} /\ ev.arg = 0) => (~ev.emb /\ ~ev.llm)

\* C12 happens: the empty query came from a session that holds a store
\* with records and a language model while Ollama is reachable, where any
\* other query is answered.
C12_EmptyQueryWhileReady ==
    /\ IsCall("generate") /\ ev.res = "skip" /\ ev.arg = 0
    /\ Truthy(ev.sess) /\ rag[ev.sess].llm /\ ollamaUp

\* C13: with the providers and the storage working, ingesting an empty
\* document reports success with zero chunks and leaves the records and
\* the existence of the store as they were.
C13_EmptyIngestIsNoOp ==
    [][ (ev'.op = "ingest" /\ ev'.arg = 0
            /\ rag[ev'.sess].emb /\ rag[ev'.sess].llm /\ ollamaUp /\ diskOk)
            => (ev'.res = "ok" /\ ev'.n = 0
                    /\ records' = records /\ diskExists' = diskExists) ]_vars

\* What does hold of an empty document: it yields no chunk, and no record
\* is written.
C13_EmptyIngestWritesNothing ==
    [][ (ev'.op = "ingest" /\ ev'.arg = 0)
            => (split_documents(ev'.arg) = <<>> /\ ev'.n = 0 /\ records' = records) ]_vars

\* The characters two consecutive chunks share, and whether the chunks,
\* in order and without the shared characters, are the first n characters
\* of the document.
Shared(i) == parts[i].off + parts[i].len - parts[i + 1].off

Rebuilds(n) ==
    IF parts = <<>> THEN n = 0
    ELSE /\ parts[1].off = 0
         /\ \A i \in 1..(Len(parts) - 1) : Shared(i) >= 0
         /\ parts[Len(parts)].off + parts[Len(parts)].len = n

WithinSizes ==
    /\ \A i \in 1..Len(parts) : parts[i].len >= 1 /\ parts[i].len <= ChunkSize
    /\ \A i \in 1..(Len(parts) - 1) : Shared(i) <= ChunkOverlap

\* C14: every chunk has at most max_size characters, two consecutive
\* chunks share at most overlap_size characters, and the chunks without
\* the shared characters, in order, are the document.
C14_ChunksRebuildDocument ==
    doc.done => (WithinSizes /\ Rebuilds(doc.body + doc.trail))

\* C14 as it holds: the same, except that the chunks put together are the
\* document without the whitespace the splitter strips from the ends of
\* the chunks; the chunk lengths are those ingest_documents stores.
C14_ChunksRebuildStrippedText ==
    doc.done => /\ WithinSizes
                /\ Rebuilds(doc.body)
                /\ [i \in 1..Len(parts) |-> parts[i].len] = split_documents(doc.body)

\* C14 happens: a document that ends with a newline was split into three
\* chunks or more, the last one shorter than the others.
C14_LongDocumentSplit ==
    /\ doc.done /\ doc.trail = 1
    /\ Len(parts) >= 3
    /\ parts[Len(parts)].len < ChunkSize

\* C15: a handler that waits for a provider always has a way on: the
\* call returns, with the answer or with a failure, whatever the server
\* does.
C15_ProviderCallsReturn ==
    \A s \in Sessions : ~Free(s) => ENABLED ProviderAnswers(s)

\* What does hold: the call returns as soon as the server answers or
\* refuses, so a handler waits for good only on a server that accepts the
\* request and stays silent.
C15_ReturnsUnlessSilent ==
    \A s \in Sessions : (~Free(s) /\ ~hung) => ENABLED ProviderAnswers(s)

\* C16: a successful query returns all the records of the store when it
\* holds fewer than k = 3, and 3 of them otherwise; these are the sources
\* the session keeps.
C16_ReturnsMinKAndN ==
    (IsCall("query") /\ ev.res = "ok")
        => /\ ev.n = IF Len(records) < 3 THEN Len(records) ELSE 3
           /\ ev.n >= 1
           /\ ui[ev.sess].srcs = ev.n

\* C16 happens: a query was answered with 3 sources from a store of more
\* than 3 records, one of them the feedback on an answer that had come
\* with the only 2 sources the store had then.
C16_MoreThanKAndFewer ==
    /\ IsCall("query") /\ ev.res = "ok"
    /\ Len(records) > TopK /\ ev.n = TopK
    /\ records[3].source = "user_feedback" /\ records[3].ans = "llm"

\* C17: every record written by "Confirm & Learn" holds an answer the
\* language model generated for a successful query, never the message of
\* a failed one.
C17_OnlyGeneratedAnswersLearnt ==
    \A i \in 1..Len(records) :
        records[i].source = "user_feedback" => records[i].ans = "llm"

\* What does hold: the stored answer is the one the session's last query
\* returned, whatever it was.
C17_LearntIsLastAnswer ==
    [][ (ev'.op = "learn" /\ ev'.res = "ok")
            => records'[Len(records')].ans = ui[ev'.sess].a.kind ]_vars

\* C18: a press of "Generate Insight", whatever its outcome (answered,
\* refused, provider failure, empty text), leaves the records, the
\* existence of the store and every session's RAGSystem as they were.
C18_QueryReadsOnly ==
    [][ ev'.op \in {"query", "generate"}
            => (records' = records /\ diskExists' = diskExists /\ rag' = rag) ]_vars

\* C18 happens: a query failed at the provider in a session that holds a
\* store with records and a language model, and still holds them.
C18_FailedQueryKeptHandles ==
    /\ IsCall("query") /\ ev.res = "err" /\ ev.emb
    /\ rag[ev.sess].vectordb /\ rag[ev.sess].llm
    /\ records # <<>>

\* C19: between two script runs, a session's last_query, last_answer and
\* last_sources are all absent or all present, and then the sources are
\* those of the call that returned the answer (some for a generated
\* answer, none for a failure message); "Confirm & Learn" is there only
\* with all three.
C19_TripleWhole ==
    \A s \in Sessions :
        Quiet(s) => /\ (ui[s].q # 0) = ui[s].has
                    /\ ~ui[s].has => ui[s] = NoLast
                    /\ ui[s].has => ((ui[s].a.kind = "llm") = (ui[s].srcs >= 1))

\* The kind of answer a query call with result `res` returned.
KindOf(res) ==
    CASE res = "ok" -> "llm"
      [] res = "notinit" -> "notinit"
      [] OTHER -> "error"

\* What does hold, of handlers that no rerun interrupts: the three are
\* absent until the session's first query call; a query call of the
\* session sets them to its own argument and results, and no other step
\* of a running process touches them; the pair "Confirm & Learn" passes to
\* self_learn is the remembered one.
C19_LastTripleFromOneCall ==
    [][ \A s \in Sessions :
        /\ ~ui[s].has => ui[s] = NoLast
        /\ IF ev'.op = "query" /\ ev'.sess = s
           THEN /\ ui'[s].has
                /\ ui'[s].q = ev'.arg
                /\ ui'[s].a.kind = KindOf(ev'.res)
                /\ ui'[s].srcs = ev'.n
           ELSE IF ev'.op = "restart" THEN ui'[s] = NoLast
           ELSE ui'[s] = ui[s]
        /\ (ev'.op = "learn" /\ ev'.sess = s)
                => (ui[s].has /\ ev'.arg = ui[s].q
                        /\ (ev'.res = "ok" => records'[Len(records')].ans = ui[s].a.kind)) ]_vars

\* This happens: in the only session of the process, which had learnt a
\* generated answer, a later query failed at the provider, and the session
\* remembers that query with its error text and no sources.
C19_FailedQueryReplacedTriple ==
    /\ IsCall("query") /\ ev.res = "err"
    /\ ui[ev.sess].a.kind = "error" /\ ui[ev.sess].srcs = 0
    /\ \A o \in Sessions \ {ev.sess} : ~Started(o)
    /\ procWrites
    /\ \E i \in 1..Len(records) :
        records[i].source = "user_feedback" /\ records[i].ans = "llm"

====
